---- MODULE Spec2Model ----
(***************************************************************************)
(* News-Flow (src/app.py): the background fetch loop news_fetcher, which   *)
(* deduplicates headlines by URL, summarizes them and keeps them in the    *)
(* in-memory list news_index, read concurrently by the HTTP handlers.      *)
(*                                                                         *)
(* Strings are sequences of one-character strings, so that split, strip    *)
(* and join do what str.split, str.strip and str.join do.  The value None  *)
(* is the one-element sequence NoneV, which is no string.                  *)
(***************************************************************************)
EXTENDS Integers, Sequences, FiniteSets, TLC

(***************************************************************************)
(* Sizes.  The program's literals are 100 (index capacity, app.py:199),    *)
(* 5 (every 5th article, app.py:179), 1000 and 500 (seen_urls compaction,  *)
(* app.py:240-241), 20 (pageSize, app.py:132), 10 (latest, app.py:772) and *)
(* 20 (get_summary, app.py:719).  The model keeps their                    *)
(* roles and scales the values so that every case is reached; C is a       *)
(* multiple of K, as 100 is of 5.                                          *)
(***************************************************************************)
C == 2
K == 2
S == 2
KEEP == 1
PAGE_SIZE == 2
MaxLen == 7
LATEST_N == 1
DIGEST_N == 2

VARIABLES
    GOOGLE_API_KEY,  \* config.py:9   TRUE iff the key is a non-empty string
    NEWSAPI_KEY,     \* config.py:8   TRUE iff the key is a non-empty string
    news_index,      \* app.py:37     the global list of indexed items
    seen_urls,       \* app.py:209    local set of news_fetcher
    pc,              \* position of the news_fetcher thread
    articles,        \* app.py:215    number of elements of the batch not yet iterated
    article_data,    \* app.py:223    the article being processed
    text,            \* app.py:175    local of process_article_directly
    summary,         \* app.py:180    local of process_article_directly
    gemini_called,   \* history: summarize_with_gemini was called for article_data
    gem_outcome,     \* history: how that call ended
    attempt_log,     \* history: for the last K processed articles, was the Gemini API called
    lastIns,         \* history: the last C+1 items appended to news_index
    admit_log,       \* history: URLs added to seen_urls since the last compaction
    offered,         \* history: non-empty URLs the gate has looked at, until the first compaction
    compacted,       \* history: a compaction has happened
    last_gate,       \* history: what the gate did with the element it looked at last
    feed_failed,     \* history: the last call of fetch_news returned [] after a failure
    batch_len,       \* history (SpecPass): len(articles) of the pass under way, else 0
    ss_in,           \* argument of a call of simple_summarize
    ss_out,          \* its result
    q_pc,            \* position of the request handler thread
    realtime_count,  \* app.py:779   local of health
    response         \* what the handler called last has returned

vars == <<GOOGLE_API_KEY, NEWSAPI_KEY, news_index, seen_urls, pc, articles,
          article_data, text, summary, gemini_called, gem_outcome, attempt_log,
          lastIns, admit_log, offered, compacted, last_gate, feed_failed, batch_len,
          ss_in, ss_out, q_pc, realtime_count, response>>

fetcherVars == <<GOOGLE_API_KEY, NEWSAPI_KEY, news_index, seen_urls, pc, articles,
                 article_data, text, summary, gemini_called, gem_outcome,
                 attempt_log, lastIns, admit_log, offered, compacted, last_gate,
                 feed_failed, batch_len>>

\* what the news_fetcher thread never touches
otherVars == <<ss_in, ss_out, q_pc, realtime_count, response>>

\* locals and result of the request handlers
handlerVars == <<q_pc, realtime_count, response>>

----------------------------------------------------------------------------
(* Python values and string operations *)

NoneV == <<"<None>">>
EmptyStr == <<>>
WS == {" ", "\t", "\n"}

Range(s) == {s[i] : i \in 1..Len(s)}
Min(a, b) == IF a < b THEN a ELSE b
LastN(s, n) == SubSeq(s, Len(s) - Min(n, Len(s)) + 1, Len(s))

\* f"{v}": None is formatted as the four letters None
Str(v) == IF v = NoneV THEN <<"N", "o", "n", "e">> ELSE v

\* bool(v) of a string or None
Truthy(v) == v # NoneV /\ v # EmptyStr

RECURSIVE LStrip(_)
LStrip(s) == IF s # <<>> /\ Head(s) \in WS THEN LStrip(Tail(s)) ELSE s

RECURSIVE RStrip(_)
RStrip(s) ==
    IF s # <<>> /\ s[Len(s)] \in WS THEN RStrip(SubSeq(s, 1, Len(s) - 1)) ELSE s

\* str.strip()
Strip(s) == RStrip(LStrip(s))

\* str.split(sep) for a one-character sep: n separators give n+1 pieces
RECURSIVE SplitAcc(_, _, _)
SplitAcc(s, sep, cur) ==
    IF s = <<>> THEN <<cur>>
    ELSE IF Head(s) = sep THEN <<cur>> \o SplitAcc(Tail(s), sep, <<>>)
    ELSE SplitAcc(Tail(s), sep, Append(cur, Head(s)))

Split(s, sep) == SplitAcc(s, sep, <<>>)

\* sep.join(parts)
RECURSIVE Join(_, _)
Join(parts, sep) ==
    IF parts = <<>> THEN <<>>
    ELSE IF Len(parts) = 1 THEN parts[1]
    ELSE parts[1] \o sep \o Join(Tail(parts), sep)

\* [s.strip() for s in pieces if s.strip()]
RECURSIVE StripNonEmpty(_)
StripNonEmpty(pieces) ==
    IF pieces = <<>> THEN <<>>
    ELSE IF Strip(Head(pieces)) # <<>>
         THEN <<Strip(Head(pieces))>> \o StripNonEmpty(Tail(pieces))
         ELSE StripNonEmpty(Tail(pieces))

\* sentences[:2]
FirstThree_two(sentences) == SubSeq(sentences, 1, Min(2, Len(sentences)))

\* sentences[:3]
FirstThree(sentences) == SubSeq(sentences, 1, Min(3, Len(sentences)))

simple_summarize(t) ==
    IF t = <<>> THEN <<>>
    ELSE Join(FirstThree(StripNonEmpty(Split(t, "."))), <<".", " ">>)

----------------------------------------------------------------------------
(* The feed: what NewsAPI can put into the "articles" list *)

\* the URLs the feed knows: one more than seen_urls keeps without compacting
NumUrls == S + 1
Url(i) == <<"u", i>>

\* title and description of the article at Url(i): a headline with a body,
\* an article with both empty, an article with both null
TitleAt(i) == CASE i % 3 = 1 -> <<"A">> [] i % 3 = 2 -> EmptyStr [] OTHER -> NoneV
DescriptionAt(i) == CASE i % 3 = 1 -> <<"B">> [] i % 3 = 2 -> EmptyStr [] OTHER -> NoneV

Feed ==
    { [kind |-> "dict", url |-> Url(i), title |-> TitleAt(i),
       description |-> DescriptionAt(i)] : i \in 1..NumUrls }
    \cup
    { [kind |-> "dict", url |-> EmptyStr, title |-> <<"A">>, description |-> <<"B">>],
      [kind |-> "dict", url |-> NoneV, title |-> <<"A">>, description |-> <<"B">>],
      [kind |-> "null", url |-> EmptyStr, title |-> EmptyStr, description |-> EmptyStr] }

\* the lengths of the list fetch_news can return (pageSize, app.py:132).  The
\* elements are drawn from Feed when the loop reaches them: nothing reads an
\* element before its iteration.
BatchSizes == 0..PAGE_SIZE

\* response.text.strip() of a Gemini answer that is not empty
GeminiText == <<"G">>

\* datetime.utcnow().isoformat(); no decision of the program reads a timestamp
utcnow == <<"t">>

\* model.encode([summary], normalize_embeddings=True)[0].tolist()
encode(s) == <<"vec">> \o s

\* no handler has returned yet
NoResponse == [kind |-> "none"]

NoArticle == [title |-> EmptyStr, description |-> EmptyStr, url |-> EmptyStr,
              fetched_at |-> EmptyStr]

AttemptWindow == K

\* how a call of the Gemini API can end (app.py:153-157): an exception, an
\* answer whose text is empty after strip(), an answer with text
ApiAnswers == {"raised", "empty", "text"}

----------------------------------------------------------------------------
(* The decisions of the code, one operator each *)

\* a gate without `if url`: any URL that is not in seen_urls is new
IsNew_any_url(url, seen) == url \notin seen

\* a gate that forgets to look into seen_urls
IsNew_unchecked(url, seen) == Truthy(url)

\* app.py:221   if url and url not in seen_urls
IsNew(url, seen) == Truthy(url) /\ url \notin seen

\* app.py:175   f"{title}. {description}".strip()
TextOf(title, description) == Strip(Str(title) \o <<".", " ">> \o Str(description))

\* the remainder compared with 1 instead of 0
UseGemini_shifted(n) == n % K = 1

\* app.py:179   if len(news_index) % 5 == 0
UseGemini(n) == n % K = 0

\* app.py:142-157  summarize_with_gemini: what it returns when the API call,
\* if one is made, ends as `answer` ("raised", "empty" or "text")
GeminiReturn(key, t, answer) ==
    IF ~key \/ t = EmptyStr THEN EmptyStr
    ELSE IF answer = "text" THEN GeminiText
    ELSE EmptyStr

\* no `or simple_summarize(text)`
OrFallback_missing(g, t) == g

\* app.py:180   summarize_with_gemini(text) or simple_summarize(text)
OrFallback(g, t) == IF g # EmptyStr THEN g ELSE simple_summarize(t)

\* the dict appended before its embedding and its processing time are set
NewsItem_unfinished(a, sum) ==
    [text |-> sum, url |-> a.url, title |-> a.title, embedding |-> NoneV,
     fetched_at |-> a.fetched_at, is_realtime |-> TRUE, processed_at |-> NoneV]

\* app.py:187-195  the dict news_item
NewsItem(a, sum) ==
    [text |-> sum, url |-> a.url, title |-> a.title, embedding |-> encode(sum),
     fetched_at |-> a.fetched_at, is_realtime |-> TRUE, processed_at |-> utcnow]

\* pops as soon as the index is full, before it overflows
PopOldest_eager(idx) == IF Len(idx) > C - 1 THEN Tail(idx) ELSE idx

\* a bound that is off by one: pops only above C + 1
PopOldest_late(idx) == IF Len(idx) > C + 1 THEN Tail(idx) ELSE idx

\* pop() instead of pop(0): drops the newest item
PopOldest_newest(idx) == IF Len(idx) > C THEN SubSeq(idx, 1, Len(idx) - 1) ELSE idx

\* app.py:199-200  if len(news_index) > 100: news_index.pop(0)
PopOldest(idx) == IF Len(idx) > C THEN Tail(idx) ELSE idx

\* app.py:240-241  set(list(seen_urls)[-500:]): the order of list(a set) is the
\* set's hash order, so any KEEP of the elements can be the last KEEP
Compactions(seen) ==
    IF Cardinality(seen) > S
    THEN {T \in SUBSET seen : Cardinality(T) = Min(KEEP, Cardinality(seen))}
    ELSE {seen}

----------------------------------------------------------------------------
(* The thread news_fetcher *)

Init ==
    /\ GOOGLE_API_KEY \in BOOLEAN
    /\ NEWSAPI_KEY \in BOOLEAN
    /\ news_index = <<>>
    /\ seen_urls = {}
    /\ pc = "fetch"
    /\ articles = 0
    /\ article_data = NoArticle
    /\ text = EmptyStr
    /\ summary = EmptyStr
    /\ gemini_called = FALSE
    /\ gem_outcome = "none"
    /\ attempt_log = <<>>
    /\ lastIns = <<>>
    /\ admit_log = <<>>
    /\ offered = {}
    /\ compacted = FALSE
    /\ last_gate = "none"
    /\ feed_failed = FALSE
    /\ batch_len = 0
    /\ ss_in = EmptyStr
    /\ ss_out = NoneV
    /\ q_pc = "idle"
    /\ realtime_count = 0
    /\ response = NoResponse

\* the URL is not recorded
seen_add_lost(seen, url) == seen

\* app.py:222   seen_urls.add(url), before article_data is built
seen_add(seen, url) == seen \cup {url}

\* the exception leaves `while True` and ends the thread
FetcherError_propagates == "halted"

\* app.py:243-246   where an exception raised in the body of `while True` leaves
\* the thread: the handler prints and falls through to time.sleep
FetcherError == "sleep"

\* a failed call that hands on a full page
FailedBatch_stale == PAGE_SIZE

\* app.py:128, app.py:139   the number of articles of the `return []` of fetch_news
FailedBatch == 0

\* app.py:124-139   the body of fetch_news
fetch_news_call ==
    /\ pc = "fetch"
    /\ \/ \* no NEWSAPI_KEY (app.py:126-128), or requests.get, raise_for_status
          \* or the JSON decoding raised (app.py:137-139): return []
          /\ feed_failed' = TRUE
          /\ articles' = FailedBatch
       \/ /\ NEWSAPI_KEY
          /\ feed_failed' = FALSE
          /\ articles' \in BatchSizes
    /\ pc' = "loop"
    /\ UNCHANGED <<GOOGLE_API_KEY, NEWSAPI_KEY, news_index, seen_urls, article_data,
                   text, summary, gemini_called, gem_outcome, attempt_log, lastIns,
                   admit_log, offered, compacted, last_gate, otherVars>>

\* app.py:215   articles = fetch_news()
fetch_news ==
    /\ fetch_news_call
    /\ UNCHANGED batch_len

\* the same call, with the length of its batch kept in batch_len
fetch_news_counted ==
    /\ fetch_news_call
    /\ batch_len' = articles'

\* app.py:219-231  one iteration of `for article in articles` up to the call of
\* process_article_directly, for an element out of `feed`; the end of the loop
\* goes on to app.py:236
gate_on(feed) ==
    /\ pc = "loop"
    /\ IF articles = 0
       THEN /\ pc' = "compact"
            /\ last_gate' = "none"
            /\ UNCHANGED <<articles, seen_urls, article_data, admit_log, offered,
                           batch_len>>
       ELSE \E article \in feed :
            IF article.kind = "null"
            THEN \* None.get raises AttributeError, caught at app.py:243
                 /\ pc' = FetcherError
                 /\ articles' = 0
                 /\ batch_len' = 0
                 /\ last_gate' = "none"
                 /\ UNCHANGED <<seen_urls, article_data, admit_log, offered>>
            ELSE /\ articles' = articles - 1
                 /\ UNCHANGED batch_len
                 /\ offered' = IF Truthy(article.url) /\ ~compacted
                               THEN offered \cup {article.url} ELSE offered
                 /\ IF IsNew(article.url, seen_urls)
                    THEN /\ seen_urls' = seen_add(seen_urls, article.url)
                         /\ admit_log' = Append(admit_log, article.url)
                         /\ article_data' = [title |-> article.title,
                                             description |-> article.description,
                                             url |-> article.url,
                                             fetched_at |-> utcnow]
                         /\ last_gate' = "admitted"
                         /\ pc' = "summarize"
                    ELSE /\ pc' = "loop"
                         /\ last_gate' = IF Truthy(article.url) THEN "seen" ELSE "no_url"
                         /\ UNCHANGED <<seen_urls, admit_log, article_data>>
    /\ UNCHANGED <<GOOGLE_API_KEY, NEWSAPI_KEY, news_index, text, summary,
                   gemini_called, gem_outcome, attempt_log, lastIns, compacted,
                   feed_failed, otherVars>>

gate == gate_on(Feed)

\* app.py:169-182  process_article_directly up to the choice of the summary,
\* taken from the position `at` of the thread
summarize_at(at) ==
    /\ pc = at
    /\ \E t \in {TextOf(article_data.title, article_data.description)} :
       /\ text' = t
       /\ IF UseGemini(Len(news_index))
          THEN /\ gemini_called' = TRUE
               /\ IF ~GOOGLE_API_KEY \/ t = EmptyStr
                  THEN /\ gem_outcome' = "skipped"
                       /\ summary' = OrFallback(GeminiReturn(GOOGLE_API_KEY, t, "none"), t)
                  ELSE \E answer \in ApiAnswers :
                       /\ gem_outcome' = answer
                       /\ summary' = OrFallback(GeminiReturn(GOOGLE_API_KEY, t, answer), t)
          ELSE /\ gemini_called' = FALSE
               /\ gem_outcome' = "none"
               /\ summary' = simple_summarize(t)
       /\ attempt_log' = LastN(Append(attempt_log, gem_outcome' \in ApiAnswers),
                               AttemptWindow)
    /\ pc' = "insert"
    /\ UNCHANGED <<GOOGLE_API_KEY, NEWSAPI_KEY, news_index, seen_urls, articles,
                   article_data, lastIns, admit_log, offered, compacted, last_gate,
                   feed_failed,
                   batch_len, otherVars>>

summarize == summarize_at("summarize")

\* what process_article_directly leaves behind when it returns
Return ==
    /\ article_data' = NoArticle
    /\ text' = EmptyStr
    /\ summary' = EmptyStr
    /\ gemini_called' = FALSE
    /\ gem_outcome' = "none"

\* app.py:184-196  if summary: encode, build news_item, news_index.append
insert ==
    /\ pc = "insert"
    /\ IF summary = EmptyStr
       THEN /\ pc' = "loop"
            /\ Return
            /\ UNCHANGED <<news_index, lastIns>>
       ELSE \/ /\ news_index' = Append(news_index, NewsItem(article_data, summary))
               /\ lastIns' = LastN(Append(lastIns, NewsItem(article_data, summary)), C + 1)
               /\ pc' = "evict"
               /\ UNCHANGED <<article_data, text, summary, gemini_called, gem_outcome>>
            \/ \* model.encode raises: caught at app.py:203
               /\ pc' = "loop"
               /\ Return
               /\ UNCHANGED <<news_index, lastIns>>
    /\ UNCHANGED <<GOOGLE_API_KEY, NEWSAPI_KEY, seen_urls, articles, attempt_log,
                   admit_log, offered, compacted, last_gate, feed_failed,
                   batch_len, otherVars>>

\* app.py:199-204  the length check, pop(0), the print and the return
evict ==
    /\ pc = "evict"
    /\ news_index' = PopOldest(news_index)
    /\ pc' = "loop"
    /\ Return
    /\ UNCHANGED <<GOOGLE_API_KEY, NEWSAPI_KEY, seen_urls, articles, attempt_log,
                   lastIns, admit_log, offered, compacted, last_gate, feed_failed,
                   batch_len, otherVars>>

\* app.py:239-241
compact ==
    /\ pc = "compact"
    /\ seen_urls' \in Compactions(seen_urls)
    /\ compacted' = (compacted \/ Cardinality(seen_urls) > S)
    /\ admit_log' = IF Cardinality(seen_urls) > S THEN <<>> ELSE admit_log
    /\ batch_len' = 0
    /\ pc' = "sleep"
    /\ UNCHANGED <<GOOGLE_API_KEY, NEWSAPI_KEY, news_index, articles, article_data,
                   text, summary, gemini_called, gem_outcome, attempt_log, lastIns,
                   offered, last_gate, feed_failed, otherVars>>

\* app.py:246   time.sleep(FETCH_INTERVAL)
sleep ==
    /\ pc = "sleep"
    /\ pc' = "fetch"
    /\ UNCHANGED <<GOOGLE_API_KEY, NEWSAPI_KEY, news_index, seen_urls, articles,
                   article_data, text, summary, gemini_called, gem_outcome,
                   attempt_log, lastIns, admit_log, offered, compacted, last_gate,
                   feed_failed,
                   batch_len, otherVars>>

news_fetcher == fetch_news \/ gate \/ summarize \/ insert \/ evict \/ compact \/ sleep

Next == news_fetcher

Spec == Init /\ [][Next]_vars

\* app.py:144, 179   summarize_with_gemini is about to call the API
CallsApi ==
    /\ UseGemini(Len(news_index))
    /\ GOOGLE_API_KEY
    /\ TextOf(article_data.title, article_data.description) # EmptyStr

\* app.py:169-182 when the API is not called
summarize_local ==
    /\ ~CallsApi
    /\ summarize

\* app.py:152   model.generate_content(prompt) is sent; no timeout is passed
generate_content_request ==
    /\ pc = "summarize"
    /\ CallsApi
    /\ pc' = "gemini"
    /\ UNCHANGED <<GOOGLE_API_KEY, NEWSAPI_KEY, news_index, seen_urls, articles,
                   article_data, text, summary, gemini_called, gem_outcome,
                   attempt_log, lastIns, admit_log, offered, compacted, last_gate,
                   feed_failed,
                   batch_len, otherVars>>

\* app.py:152-157, 180   the API answers or the call raises
generate_content_answer == summarize_at("gemini")

NextStall ==
    \/ fetch_news
    \/ gate
    \/ summarize_local
    \/ generate_content_request
    \/ generate_content_answer
    \/ insert
    \/ evict
    \/ compact
    \/ sleep

\* The thread keeps running and requests.get(..., timeout=10) (app.py:133) ends
\* by itself; nothing in the program ends a generate_content that gets no
\* answer, so no fairness is assumed of generate_content_answer.
SpecStall ==
    /\ Init
    /\ [][NextStall]_vars
    /\ WF_vars(fetch_news \/ gate \/ summarize_local \/ generate_content_request
                  \/ insert \/ evict \/ compact \/ sleep)

\* The end-to-end run: NewsAPI serves C + 1 articles with a headline, a body
\* and a URL of their own, in this order, over batches of any sizes, and
\* nothing after them.
E2EItem(i) ==
    [kind |-> "dict", url |-> Url(i), title |-> <<"A">>, description |-> <<"B">>]

\* how many of them the for loop has reached (their URLs are all in `offered`)
Fed == Cardinality(offered)

fetch_news_e2e ==
    /\ fetch_news
    /\ articles' <= C + 1 - Fed

gate_e2e == gate_on({E2EItem(Fed + 1)})

NextE2E ==
    \/ fetch_news_e2e
    \/ gate_e2e
    \/ summarize
    \/ insert
    \/ evict
    \/ compact
    \/ sleep

SpecE2E == Init /\ [][NextE2E]_vars

\* the fetcher, with the length of each batch on record
NextPass ==
    \/ fetch_news_counted
    \/ gate
    \/ summarize
    \/ insert
    \/ evict
    \/ compact
    \/ sleep

SpecPass == Init /\ [][NextPass]_vars

\* the thread of app.py:802 keeps running, and every call it makes returns or
\* raises
SpecLive == Spec /\ WF_vars(Next)

----------------------------------------------------------------------------
(* The request handlers.  FastAPI runs them in worker threads, concurrently *)
(* with news_fetcher; each reading of news_index is a step of its own.      *)

\* index[:n], the oldest items
recent_items_first(index, n) == SubSeq(index, 1, Min(n, Len(index)))

\* app.py:719, app.py:772   news_index[-n:]
recent_items(index, n) == LastN(index, n)

\* str.split(): the maximal runs of characters that are not whitespace
RECURSIVE SplitWordsAcc(_, _)
SplitWordsAcc(s, cur) ==
    IF s = <<>> THEN (IF cur = <<>> THEN <<>> ELSE <<cur>>)
    ELSE IF Head(s) \in WS
         THEN (IF cur = <<>> THEN <<>> ELSE <<cur>>) \o SplitWordsAcc(Tail(s), <<>>)
         ELSE SplitWordsAcc(Tail(s), Append(cur, Head(s)))

SplitWords(s) == SplitWordsAcc(s, <<>>)

\* app.py:750-751   ' '.join(item['title'].split()[:3])
TopicKey(title) ==
    LET words == SplitWords(title) IN
    Join(SubSeq(words, 1, Min(3, Len(words))), <<" ">>)

\* app.py:747-754   the dict topics, in the order in which its keys were added
RECURSIVE GroupTopics(_, _)
GroupTopics(items, topics) ==
    IF items = <<>> THEN topics
    ELSE LET k == TopicKey(Head(items).title)
             t == Head(items).text
         IN  IF \E j \in 1..Len(topics) : topics[j].key = k
             THEN GroupTopics(Tail(items),
                      [j \in 1..Len(topics) |->
                          IF topics[j].key = k
                          THEN [key |-> k, texts |-> Append(topics[j].texts, t)]
                          ELSE topics[j]])
             ELSE GroupTopics(Tail(items), Append(topics, [key |-> k, texts |-> <<t>>]))

\* app.py:757-758   f"**{topic}**: {' '.join(articles[:2])}"
SummaryPart(topic) ==
    <<"*", "*">> \o topic.key \o <<"*", "*", ":", " ">>
        \o Join(SubSeq(topic.texts, 1, Min(2, Len(topic.texts))), <<" ">>)

\* app.py:756-760   "\n\n".join of the parts of the first five topics
FallbackSummary(items) ==
    LET topics == GroupTopics(items, <<>>)
        parts == [j \in 1..Min(5, Len(topics)) |-> SummaryPart(topics[j])]
    IN  Join(parts, <<"\n", "\n">>)

\* app.py:750   None has no split: AttributeError, raised inside the handler of
\* app.py:744 and so out of get_summary
FallbackRaises(items) == \E i \in 1..Len(items) : items[i].title = NoneV

\* app.py:715
NoArticlesMessage == <<"N", "o", " ", "n", "e", "w", "s">>

\* response.text.strip() of the digest Gemini writes
DigestText == <<"D">>

\* app.py:724-761   what get_summary returns for recent_items when the Gemini
\* call ends as `answer`
SummaryResponse(items, answer) ==
    IF answer = "text"
    THEN [kind |-> "summary", summary |-> DigestText, article_count |-> Len(items)]
    ELSE IF answer = "empty"
    THEN [kind |-> "summary", summary |-> EmptyStr, article_count |-> Len(items)]
    ELSE IF FallbackRaises(items)
    THEN [kind |-> "raised"]
    ELSE [kind |-> "summary", summary |-> FallbackSummary(items),
          article_count |-> Len(items)]

\* app.py:763-769   latest up to `if not news_index`
latest ==
    /\ q_pc = "idle"
    /\ IF news_index = <<>>
       THEN /\ response' = [kind |-> "latest", items |-> <<>>]
            /\ q_pc' = "idle"
       ELSE /\ response' = NoResponse
            /\ q_pc' = "latest_slice"
    /\ UNCHANGED <<fetcherVars, ss_in, ss_out, realtime_count>>

\* app.py:772-774   recent_items = news_index[-10:]; return recent_items
latest_slice ==
    /\ q_pc = "latest_slice"
    /\ response' = [kind |-> "latest", items |-> recent_items(news_index, LATEST_N)]
    /\ q_pc' = "idle"
    /\ UNCHANGED <<fetcherVars, ss_in, ss_out, realtime_count>>

\* app.py:710-716   get_summary up to `if not news_index`
get_summary ==
    /\ q_pc = "idle"
    /\ IF news_index = <<>>
       THEN /\ response' = [kind |-> "message", summary |-> NoArticlesMessage]
            /\ q_pc' = "idle"
       ELSE /\ response' = NoResponse
            /\ q_pc' = "summary_slice"
    /\ UNCHANGED <<fetcherVars, ss_in, ss_out, realtime_count>>

\* app.py:719-761   recent_items = news_index[-20:] and all that is computed
\* from it; the Gemini call is made with whatever key is configured
get_summary_slice ==
    /\ q_pc = "summary_slice"
    /\ \E answer \in (IF GOOGLE_API_KEY THEN ApiAnswers ELSE {"raised"}) :
          response' = SummaryResponse(recent_items(news_index, DIGEST_N), answer)
    /\ q_pc' = "idle"
    /\ UNCHANGED <<fetcherVars, ss_in, ss_out, realtime_count>>

\* app.py:779   realtime_count = sum(1 for item in news_index if ...)
health ==
    /\ q_pc = "idle"
    /\ realtime_count' =
          Cardinality({i \in 1..Len(news_index) : news_index[i].is_realtime})
    /\ response' = NoResponse
    /\ q_pc' = "health_len"
    /\ UNCHANGED <<fetcherVars, ss_in, ss_out>>

\* app.py:780-788   the dict, which reads len(news_index)
health_len ==
    /\ q_pc = "health_len"
    /\ response' = [kind |-> "health", indexed_news |-> Len(news_index),
                    realtime_news |-> realtime_count]
    /\ realtime_count' = 0
    /\ q_pc' = "idle"
    /\ UNCHANGED <<fetcherVars, ss_in, ss_out>>

NextQuery ==
    \/ fetch_news
    \/ gate
    \/ summarize
    \/ insert
    \/ evict
    \/ compact
    \/ sleep
    \/ latest
    \/ latest_slice
    \/ get_summary
    \/ get_summary_slice
    \/ health
    \/ health_len

\* app.py:790-808   the fetcher thread and the handler threads of the server
SpecQuery == Init /\ [][NextQuery]_vars

----------------------------------------------------------------------------
(* The bounded index *)

\* C1: whenever no insert is under way (the fetcher is not between the append
\* and the length check of process_article_directly), news_index holds at most
\* C items.
C1_BoundedAfterInsert == pc # "evict" => Len(news_index) <= C

\* an insert into a full index has completed
C1_Witness == pc = "loop" /\ Len(lastIns) = C + 1 /\ Len(news_index) = C

\* C2: in every reachable state, also those between the append and the pop that
\* a handler running in another thread can observe, news_index holds at most C
\* items.
C2_NeverAboveCapacity == Len(news_index) <= C

\* C3: after every completed insert news_index is exactly the last min(n, C)
\* items appended so far, oldest first.
C3_Fifo == pc # "evict" => news_index = LastN(lastIns, C)

\* C + 1 distinct items were inserted: the first is gone, the other C remain
C3_Witness ==
    /\ pc = "loop"
    /\ Len(lastIns) = C + 1
    /\ news_index = Tail(lastIns)
    /\ lastIns[1] \notin Range(news_index)

----------------------------------------------------------------------------
(* The deduplication gate *)

NoDup(s) == \A i, j \in 1..Len(s) : i # j => s[i] # s[j]

\* C4: until the first compaction, every URL is admitted at most once, the
\* admitted URLs are exactly the ones recorded in seen_urls, and every non-empty
\* URL the gate has looked at is among them (its first offer was admitted).
C4_AdmittedOnce ==
    ~compacted =>
        /\ NoDup(admit_log)
        /\ Range(admit_log) = seen_urls
        /\ offered = seen_urls

\* a URL that is in seen_urls was offered again and rejected
C4_Witness ==
    /\ ~compacted
    /\ pc = "loop"
    /\ last_gate = "seen"
    /\ Cardinality(seen_urls) >= 2

\* C5: a compaction leaves in seen_urls exactly the KEEP URLs admitted last.
C5_KeepsMostRecent ==
    [][(pc = "compact" /\ Cardinality(seen_urls) > S)
         => seen_urls' = Range(LastN(admit_log, KEEP))]_vars

----------------------------------------------------------------------------
(* The choice of the summarizer *)

\* C6: summarize_with_gemini is called for an article exactly when the length
\* of news_index at that time is a multiple of K; for every other article it
\* is not called and the summary is the one of simple_summarize.
C6_EveryKth ==
    pc = "insert" =>
        /\ gemini_called <=> (Len(news_index) % K = 0)
        /\ ~gemini_called =>
               (gem_outcome = "none" /\ summary = simple_summarize(text))

\* the article at position K
C6_Witness == pc = "insert" /\ gemini_called /\ Len(news_index) = K

CeilDiv(n, k) == (n + k - 1) \div k

\* C7: among any n articles processed one after the other, at most ceil(n/K)
\* make a call to the Gemini API.
C7_OneInK ==
    \A i \in 1..Len(attempt_log) : \A j \in i..Len(attempt_log) :
        Cardinality({m \in i..j : attempt_log[m]}) <= CeilDiv(j - i + 1, K)

GeminiFailed == gemini_called /\ gem_outcome \in {"skipped", "raised", "empty"}

\* C8: when summarize_with_gemini was called and gave nothing (no key, an
\* exception, an empty answer), the summary is simple_summarize of the same
\* text, the fetcher goes on, and an item that is then appended carries that
\* summary.
C8_FallbackOnFailure ==
    (pc \in {"insert", "evict"} /\ GeminiFailed) =>
        /\ summary = simple_summarize(text)
        /\ pc = "evict" =>
               /\ summary # EmptyStr
               /\ news_index[Len(news_index)].text = simple_summarize(text)

\* the API call raised and the article was indexed with the local summary
C8_Witness ==
    /\ pc = "evict"
    /\ gem_outcome = "raised"
    /\ news_index[Len(news_index)].text = simple_summarize(text)
    /\ news_index[Len(news_index)].url = article_data.url

\* C9: an article whose title and description are both empty gets an empty
\* summary and is not appended to news_index.
C9_EmptyDropped ==
    (pc \in {"insert", "evict"}
       /\ article_data.title = EmptyStr /\ article_data.description = EmptyStr)
    => (summary = EmptyStr /\ pc # "evict")

----------------------------------------------------------------------------
(* simple_summarize as a function: every text of at most MaxLen characters *)
(* over a letter, the period and the blank, and the text of the example    *)

Alphabet == {"a", ".", " "}
Example == <<"A", ".", " ", "B", ".", " ", "C", ".", " ", "D", ".">>
Texts == UNION {[1..n -> Alphabet] : n \in 0..MaxLen} \cup {Example}

InitSumm ==
    /\ GOOGLE_API_KEY = FALSE
    /\ NEWSAPI_KEY = FALSE
    /\ news_index = <<>>
    /\ seen_urls = {}
    /\ pc = "fetch"
    /\ articles = 0
    /\ article_data = NoArticle
    /\ text = EmptyStr
    /\ summary = EmptyStr
    /\ gemini_called = FALSE
    /\ gem_outcome = "none"
    /\ attempt_log = <<>>
    /\ lastIns = <<>>
    /\ admit_log = <<>>
    /\ offered = {}
    /\ compacted = FALSE
    /\ last_gate = "none"
    /\ feed_failed = FALSE
    /\ batch_len = 0
    /\ ss_in \in Texts
    /\ ss_out = NoneV
    /\ q_pc = "idle"
    /\ realtime_count = 0
    /\ response = NoResponse

\* a call simple_summarize(ss_in)
call_simple_summarize ==
    /\ ss_out = NoneV
    /\ ss_out' = simple_summarize(ss_in)
    /\ UNCHANGED <<fetcherVars, ss_in, handlerVars>>

NextSumm == call_simple_summarize

SpecSumm == InitSumm /\ [][NextSumm]_vars

\* The pieces of t between periods, by position: character i belongs to piece
\* number (periods before i) + 1.
PeriodsBefore(t, i) == Cardinality({j \in 1..(i - 1) : t[j] = "."})
PieceAt(t, k) == {i \in 1..Len(t) : t[i] # "." /\ PeriodsBefore(t, i) = k - 1}

\* the positions of piece k that remain when the blanks at both ends are cut
Kept(t, k) ==
    {i \in PieceAt(t, k) :
        /\ \E a \in PieceAt(t, k) : a <= i /\ t[a] \notin WS
        /\ \E b \in PieceAt(t, k) : i <= b /\ t[b] \notin WS}

\* the characters of t at the positions P, in order
Sub(t, P) ==
    [n \in 1..Cardinality(P) |->
        t[CHOOSE i \in P : Cardinality({j \in P : j < i}) = n - 1]]

\* the numbers of the pieces that are not empty after trimming and have fewer
\* than three such pieces before them
Chosen(t) ==
    {k \in 1..(Len(t) + 1) :
        /\ Kept(t, k) # {}
        /\ Cardinality({h \in 1..(k - 1) : Kept(t, h) # {}}) < 3}

NthChosen(t, n) ==
    CHOOSE k \in Chosen(t) : Cardinality({h \in Chosen(t) : h < k}) = n - 1

FirstThreeJoined(t) ==
    CASE Cardinality(Chosen(t)) = 0 -> <<>>
      [] Cardinality(Chosen(t)) = 1 -> Sub(t, Kept(t, NthChosen(t, 1)))
      [] Cardinality(Chosen(t)) = 2 ->
             Sub(t, Kept(t, NthChosen(t, 1))) \o <<".", " ">>
             \o Sub(t, Kept(t, NthChosen(t, 2)))
      [] OTHER ->
             Sub(t, Kept(t, NthChosen(t, 1))) \o <<".", " ">>
             \o Sub(t, Kept(t, NthChosen(t, 2))) \o <<".", " ">>
             \o Sub(t, Kept(t, NthChosen(t, 3)))

\* C10: simple_summarize returns the first three pieces between periods that
\* are not empty after trimming, trimmed and joined with ". " (fewer when there
\* are fewer, the empty string when there are none); "A. B. C. D." gives
\* "A. B. C".
C10_FirstThreeSentences ==
    ss_out # NoneV =>
        /\ ss_out = FirstThreeJoined(ss_in)
        /\ ss_in = Example => ss_out = <<"A", ".", " ", "B", ".", " ", "C">>

\* a text with more than three sentences was cut to its first three
C10_Witness ==
    /\ ss_in = Example
    /\ ss_out = <<"A", ".", " ", "B", ".", " ", "C">>

----------------------------------------------------------------------------
(* What reaches the index *)

\* C11: an article the gate admitted is appended to news_index exactly when its
\* summary is not empty, nothing is appended for an element the gate did not
\* admit, and every item of news_index has a non-empty text.
C11_InsertedIffSummary ==
    /\ [](\A i \in 1..Len(news_index) : news_index[i].text # EmptyStr)
    /\ [][/\ (pc = "insert" /\ pc' # pc) =>
                ((summary # EmptyStr)
                   <=> news_index' = Append(news_index, NewsItem(article_data, summary)))
          /\ pc = "loop" => news_index' = news_index]_vars

\* [0.0] * 384, the placeholder embed_text returns when encoding fails
\* (app.py:68, app.py:73)
ZeroVector == <<"zeros">>

\* C12: an admitted article with a non-empty summary is appended whether or not
\* the encoder fails; when it fails the item carries the zero vector.
C12_EmbeddingNeverGates ==
    [][(pc = "insert" /\ pc' # pc /\ summary # EmptyStr) =>
          \E e \in {encode(summary), ZeroVector} :
              news_index' = Append(news_index,
                                   [NewsItem(article_data, summary) EXCEPT !.embedding = e])]_vars

----------------------------------------------------------------------------
(* The gate and what follows it *)

\* C18: the URL of an article is in seen_urls from the gate on, before its
\* summary is computed and whatever becomes of it; summarizing, inserting and
\* evicting leave seen_urls alone; only the compaction of an oversized set
\* removes a URL; and the gate admits only a URL that is not in seen_urls.  So
\* an admitted article that was dropped is not processed again while
\* compaction has not forgotten its URL.
C18_SeenBeforeSummary ==
    /\ [](pc \in {"summarize", "insert", "evict"} => article_data.url \in seen_urls)
    /\ [][/\ pc \in {"summarize", "insert", "evict"} => seen_urls' = seen_urls
          /\ ~(seen_urls \subseteq seen_urls') =>
                 pc = "compact" /\ Cardinality(seen_urls) > S
          /\ (pc = "loop" /\ pc' = "summarize") =>
                 /\ article_data'.url \notin seen_urls
                 /\ seen_urls' = seen_urls \cup {article_data'.url}]_vars

\* every admitted article so far was dropped, and one of them, offered again,
\* was refused by the gate
C18_Witness ==
    /\ pc = "loop"
    /\ last_gate = "seen"
    /\ seen_urls # {}
    /\ news_index = <<>>
    /\ lastIns = <<>>
    /\ ~compacted

----------------------------------------------------------------------------
(* A pass whose feed call failed *)

\* C14 as stated: after fetch_news has returned [] for a failure (or for want
\* of a key), no step of the pass changes news_index or seen_urls, and the
\* pass goes through the end of the batch and the compaction check to the
\* sleep and the next call of fetch_news.
C14_FailedPassChangesNothing ==
    [][feed_failed =>
          /\ news_index' = news_index
          /\ seen_urls' = seen_urls
          /\ pc = "loop" => pc' = "compact"
          /\ pc = "compact" => pc' = "sleep"
          /\ pc = "sleep" => pc' = "fetch"]_vars

\* C14 for a pass that finds at most S URLs at its compaction check: the same,
\* with seen_urls only certain to stay as it was in that case.
C14_FailedPassFrame ==
    [][feed_failed =>
          /\ news_index' = news_index
          /\ Cardinality(seen_urls) <= S => seen_urls' = seen_urls
          /\ seen_urls' \subseteq seen_urls
          /\ pc = "loop" => pc' = "compact"
          /\ pc = "compact" => pc' = "sleep"
          /\ pc = "sleep" => pc' = "fetch"]_vars

\* a pass with a failed feed call has reached its sleep, with articles indexed
\* and URLs seen by earlier passes
C14_Witness ==
    /\ feed_failed
    /\ pc = "sleep"
    /\ news_index # <<>>
    /\ seen_urls # {}
    /\ Cardinality(seen_urls) <= S

----------------------------------------------------------------------------
(* The loop goes on *)

\* C13: a pass begins only out of the sleep, every pass reaches the sleep,
\* whatever failed in it, and every sleep is followed by a new pass.
C13_AlwaysAnotherPass ==
    /\ [][/\ (pc' # pc /\ pc' = "fetch") => pc = "sleep"
          /\ (pc' # pc /\ pc = "sleep") => pc' = "fetch"]_vars
    /\ []<>(pc = "sleep")
    /\ []<>(pc = "fetch")

\* a pass that an exception in the for loop ended before the compaction check
\* has reached the sleep
C13_Witness ==
    /\ pc = "sleep"
    /\ ~feed_failed
    /\ Cardinality(seen_urls) > S

----------------------------------------------------------------------------
(* A call that gets no answer *)

\* C20: whenever the fetcher is in the feed call or in a Gemini call, it
\* reaches the sleep later on, and a new pass after it, even if the call is
\* never answered.
C20_StalledCallCutOff ==
    /\ [](pc \in {"fetch", "gemini"} => <>(pc = "sleep"))
    /\ [](pc = "sleep" => <>(pc = "fetch"))

----------------------------------------------------------------------------
(* End to end *)

----------------------------------------------------------------------------
(* What the handlers return *)

Fields ==
    {"text", "url", "title", "embedding", "fetched_at", "is_realtime", "processed_at"}

\* r has the seven fields, and they are those of one article of the feed: its
\* URL and title, a summary of its text with the embedding of that summary,
\* and the times of its pass
CompleteItem(r) ==
    /\ DOMAIN r = Fields
    /\ \E a \in {f \in Feed : f.kind = "dict"} :
          /\ r.url = a.url
          /\ r.title = a.title
          /\ r.text \in {GeminiText, simple_summarize(TextOf(a.title, a.description))}
    /\ r.text # EmptyStr
    /\ r.embedding = encode(r.text)
    /\ r.fetched_at = utcnow
    /\ r.processed_at = utcnow
    /\ r.is_realtime = TRUE

\* C15: every item latest returns is complete, whatever the fetcher was doing
\* when latest read news_index.
C15_NoTornRead ==
    response.kind = "latest" =>
        \A k \in 1..Len(response.items) : CompleteItem(response.items[k])

\* latest has returned the item that the fetcher has appended to a full index
\* and whose insert is not finished: the oldest item is still to be popped
C15_Witness ==
    /\ pc = "evict"
    /\ Len(news_index) = C + 1
    /\ response.kind = "latest"
    /\ response.items # <<>>
    /\ response.items[Len(response.items)] = news_index[C + 1]
    /\ \A i \in 1..C : news_index[i] # news_index[C + 1]


C19_DigestNeverRaises ==
    /\ [](response.kind # "raised")
    /\ [][/\ (response' # response /\ response'.kind = "message") =>
                 news_index = <<>> /\ response'.summary = NoArticlesMessage
          /\ (q_pc = "summary_slice" /\ q_pc' = "idle") =>
                 response'.kind = "summary"]_vars

----------------------------------------------------------------------------
(* The life of an item *)

\* C21: a step leaves news_index as it is, or appends one item behind the
\* others, which keep their fields and their order, or removes the head, and
\* that only in the length check that follows an append which has made the
\* index longer than C.
C21_OnlyHeadEviction ==
    [][\/ news_index' = news_index
       \/ /\ Len(news_index') = Len(news_index) + 1
          /\ SubSeq(news_index', 1, Len(news_index)) = news_index
       \/ /\ news_index # <<>>
          /\ news_index' = Tail(news_index)
          /\ pc = "evict"
          /\ Len(news_index) > C]_vars

\* an insert into a full index is over: the head is gone, the other items and
\* the new one are there in their order
C21_Witness ==
    /\ pc = "loop"
    /\ Len(lastIns) = C + 1
    /\ news_index = SubSeq(lastIns, 2, C + 1)
    /\ lastIns[1] # lastIns[2]


\* C22: no two items of news_index have the same URL.
C22_NoDuplicateUrl ==
    \A i, j \in 1..Len(news_index) :
        i # j => news_index[i].url # news_index[j].url

----------------------------------------------------------------------------
(* The counts of health *)

\* C23: in every answer of health, realtime_news is at most indexed_news and
\* indexed_news is at most C.
C23_HealthConsistent ==
    response.kind = "health" =>
        /\ response.realtime_news <= response.indexed_news
        /\ response.indexed_news <= C

----------------------------------------------------------------------------
(* The size of seen_urls *)

\* C24: the compaction check at the end of a pass leaves at most S URLs in
\* seen_urls, a compaction leaves exactly KEEP, and during a pass seen_urls
\* never holds more than S plus the length of the batch of that pass.
C24_SeenBounded ==
    /\ [](pc \in {"loop", "summarize", "insert", "evict", "compact"} =>
              Cardinality(seen_urls) <= S + batch_len)
    /\ [][pc = "compact" =>
              /\ Cardinality(seen_urls') <= S
              /\ seen_urls' # seen_urls => Cardinality(seen_urls') = KEEP]_vars

----------------------------------------------------------------------------
(* An article without a URL *)

\* C25: when the gate looks at an element whose URL is empty or None, nothing
\* changes but the position in the batch: no URL is recorded, nothing is
\* summarized or inserted.  seen_urls never holds the empty string or None,
\* and no item of news_index has an empty URL.
C25_EmptyUrlSkipped ==
    /\ [](/\ EmptyStr \notin seen_urls
          /\ NoneV \notin seen_urls
          /\ \A i \in 1..Len(news_index) : Truthy(news_index[i].url))
    /\ [][(pc = "loop" /\ last_gate' = "no_url") =>
              /\ pc' = "loop"
              /\ articles' = articles - 1
              /\ UNCHANGED <<seen_urls, news_index, article_data, text, summary,
                             admit_log, offered>>]_vars

\* with articles indexed and URLs seen, the gate has passed over an element
\* without a URL and goes on with the batch
C25_Witness ==
    /\ pc = "loop"
    /\ last_gate = "no_url"
    /\ articles > 0
    /\ seen_urls # {}
    /\ news_index # <<>>

====
